---- MODULE Spec2Model ----
\* A model of go-stdlib/go-errors: the Canonical error value, Flags, Extras,
\* the Group aggregate and its chain cursor.
\*
\* Go values are modelled with their sharing: a slice is a header (array, offset,
\* length, capacity) over a backing array kept in a heap, a *Group is a pointer
\* (an id into the heap), a Canonical is a value. Error values are records whose
\* field "kind" is their dynamic type: "nil", "canonical", "foreign" (any error
\* type defined outside the package, with the cause its Unwrap returns, if any),
\* "group" (*Group) and "chain". Every constructor of the package returns
\* Canonical by value, so the pointer type *Canonical is not part of the model.
EXTENDS Integers, Sequences, FiniteSets, TLC

VARIABLES heap, last, walk, stack, regs, sheap, seen, calls

vars == <<heap, last, walk, stack, regs, sheap, seen, calls>>

\* ---------------------------------------------------------------- bounds

\* The client's group variables: a receiver and an argument.
GroupIds == {1, 2}
\* The client's Canonical variables.
RegIds == {1, 2}
\* Most members a group is grown to.
MaxLen == 3
\* Most elements of a Tags sequence.
MaxTags == 4
\* Most elements of a Links sequence.
MaxLinks == 1
\* Most With* calls the client makes.
MaxCalls == 5

\* one backing array per group, one for a chain handed out, one being allocated
ArrIds == 1..(Cardinality(GroupIds) + 2)
\* one backing array per Tags or Links sequence of a register, one being allocated
StrArrIds == 1..(2 * Cardinality(RegIds) + 1)

\* ---------------------------------------------------------------- values

Nil == [kind |-> "nil"]

DefaultNamespace == "go-stdlib/go-errors"

FlagUnknown == 1
FlagRetryable == 2
FlagTimeout == 4

\* The nil []string: no array.
NilStrings == [arr |-> 0, len |-> 0, cap |-> 0]

ZeroExtras == [Delay |-> 0, Links |-> NilStrings, StackTrace |-> "", Tags |-> NilStrings]

Canonical(code, extras, flags, message, namespace, wrapped) ==
    [kind |-> "canonical", Code |-> code, Extras |-> extras, Flags |-> flags,
     Message |-> message, Namespace |-> namespace, Wrapped |-> wrapped]

ZeroCanonical == Canonical("", ZeroExtras, 0, "", "", Nil)

ErrUnknownMutNoFlag == Canonical("unknown", ZeroExtras, 0, "wrapped error is unknown", DefaultNamespace, Nil)

ErrUnknown == Canonical("unknown", ZeroExtras, FlagUnknown, "wrapped error is unknown", DefaultNamespace, Nil)

\* An error of a type defined outside the package; cause is what its Unwrap
\* method returns (Nil when it has none), as for fmt.Errorf with and without %w.
Foreign(msg, cause) == [kind |-> "foreign", msg |-> msg, Wrapped |-> cause]

\* A *Group; id 0 is the nil pointer.
GroupPtr(id) == [kind |-> "group", id |-> id]

\* ---------------------------------------------------------------- Flags (uint8)

RECURSIVE BitOp(_, _, _, _)
\* Bitwise combination of two 8-bit masks, bit by bit; op[<<a, b>>] is the
\* result bit.
BitOp(op, x, y, n) ==
    IF n = 0 THEN 0
    ELSE op[<<x % 2, y % 2>>] + 2 * BitOp(op, x \div 2, y \div 2, n - 1)

OrBits == [p \in {0, 1} \X {0, 1} |-> IF p[1] = 1 \/ p[2] = 1 THEN 1 ELSE 0]
AndBits == [p \in {0, 1} \X {0, 1} |-> IF p[1] = 1 /\ p[2] = 1 THEN 1 ELSE 0]
AndNotBits == [p \in {0, 1} \X {0, 1} |-> IF p[1] = 1 /\ p[2] = 0 THEN 1 ELSE 0]
XorBits == [p \in {0, 1} \X {0, 1} |-> IF p[1] # p[2] THEN 1 ELSE 0]

FlagsClear(f, bits) == BitOp(AndNotBits, f, bits, 8)
FlagsHas(f, bits) == BitOp(AndBits, f, bits, 8) # 0
FlagsSet(f, bits) == BitOp(OrBits, f, bits, 8)
FlagsToggle(f, bits) == BitOp(XorBits, f, bits, 8)

\* ---------------------------------------------------------------- slices

\* The capacity append grows a full slice to (runtime.growslice), for 16-byte
\* elements (string, interface) and at most 16 of them: the needed length when
\* it exceeds twice the old capacity, else twice the old capacity. Every such
\* size is a malloc size class, so nothing is rounded up.
GrowCap(oldCap, newLen) == IF newLen > 2 * oldCap THEN newLen ELSE 2 * oldCap

SubSeqFrom(s, from, n) == [i \in 1..n |-> s[from + i]]

Pad(s, n, zero) == [i \in 1..n |-> IF i <= Len(s) THEN s[i] ELSE zero]

\* The nil []Error.
NilErrors == [arr |-> 0, off |-> 0, len |-> 0, cap |-> 0]

\* The elements a slice header shows.
Elems(h, s) == IF s.len = 0 THEN <<>> ELSE SubSeqFrom(h.earrs[s.arr], s.off, s.len)

\* The members of the group at id.
Members(h, id) == Elems(h, h.groups[id].Errors)

\* The arrays some live slice header points into.
Referenced(h) ==
    {h.groups[g].Errors.arr : g \in {x \in GroupIds : h.groups[x].live}}
    \cup (IF h.chain.kind = "chain" THEN {h.chain.arr} ELSE {})

FreeArr(h) == CHOOSE k \in ArrIds : k \notin Referenced(h) /\ \A j \in ArrIds : j < k => j \in Referenced(h)

\* Where the collector moves an array: a group's array to the group's own
\* slot, the array of the chain handed out to the slot after them.
ChainSlot == Cardinality(GroupIds) + 1

Moved(h, a) ==
    IF \E g \in GroupIds : h.groups[g].live /\ h.groups[g].Errors.arr = a
    THEN CHOOSE g \in GroupIds : h.groups[g].live /\ h.groups[g].Errors.arr = a
    ELSE ChainSlot

\* A moving collection: arrays nothing points into are dropped, the others are
\* renumbered. Sharing is kept: two headers on one array stay on one array.
Collect(h) ==
    [groups |-> [g \in GroupIds |->
                    IF h.groups[g].live
                    THEN [h.groups[g] EXCEPT !.Errors.arr = Moved(h, h.groups[g].Errors.arr)]
                    ELSE h.groups[g]],
     earrs |-> [k \in ArrIds |->
                    IF \E a \in Referenced(h) : Moved(h, a) = k
                    THEN h.earrs[CHOOSE a \in Referenced(h) : Moved(h, a) = k]
                    ELSE <<>>],
     chain |-> IF h.chain.kind = "chain"
               THEN [h.chain EXCEPT !.arr = Moved(h, h.chain.arr)]
               ELSE h.chain]

\* make([]Error, 0, c): a header of length 0 on a fresh array.
MakeErrors(h, c) == [arr |-> FreeArr(h), off |-> 0, len |-> 0, cap |-> c]

EmptyHeap ==
    [groups |-> [g \in GroupIds |-> [live |-> FALSE, Errors |-> NilErrors]],
     earrs |-> [k \in ArrIds |-> <<>>],
     chain |-> Nil]

\* ---------------------------------------------------------------- errors.As

\* The elements of a string slice.
Strings(sh, s) == IF s.len = 0 THEN <<>> ELSE [i \in 1..s.len |-> sh[s.arr][i]]

RECURSIVE ErrorsAs(_, _, _), chainAs(_, _, _)
\* errors.As(err, &target) for a target of dynamic type tgt ("group" for
\* *Group, "canonical" for Error and for Canonical, which only Canonical
\* satisfies): the value the target is set to, Nil when As returns false.
\* At each link: the link itself when its type is assignable to the target,
\* else what its As method finds (only chain has one), else on to Unwrap().
\* The chain runs over a sequence of members, as chain(errs) does.
ErrorsAs(h, err, tgt) ==
    IF err.kind = "nil" THEN Nil
    ELSE IF err.kind = tgt THEN err
    ELSE IF err.kind = "chain" THEN chainAs(h, Elems(h, err), tgt)
    ELSE IF err.kind = "group" THEN
        \* (*Group).Unwrap: nil, the only member, or a chain over a copy
        LET es == IF err.id = 0 THEN <<>> ELSE Members(h, err.id) IN
        IF Len(es) = 0 THEN Nil
        ELSE IF Len(es) = 1 THEN ErrorsAs(h, es[1], tgt)
        ELSE chainAs(h, es, tgt)
    ELSE ErrorsAs(h, err.Wrapped, tgt)

\* errors.As arriving at a chain over es: chain.As asks member 0, and
\* chain.Unwrap moves on to es[1:], or ends the walk when one member is left.
chainAs(h, es, tgt) ==
    IF Len(es) = 0 THEN Nil
    ELSE LET m == ErrorsAs(h, es[1], tgt) IN
         IF m.kind # "nil" THEN m
         ELSE IF Len(es) <= 1 THEN Nil
         ELSE chainAs(h, Tail(es), tgt)

\* ---------------------------------------------------------------- Canonical

\* new(Canonical): a pointer to a zero Canonical.
NewCanonical == [kind |-> "*canonical", elem |-> ZeroCanonical]

DeepEqualStrings(sh, a, b) ==
    /\ (a.arr = 0) = (b.arr = 0)
    /\ Strings(sh, a) = Strings(sh, b)

DeepEqualExtras(sh, a, b) ==
    /\ a.Delay = b.Delay
    /\ DeepEqualStrings(sh, a.Links, b.Links)
    /\ a.StackTrace = b.StackTrace
    /\ DeepEqualStrings(sh, a.Tags, b.Tags)

RECURSIVE DeepEqual(_, _, _)
\* reflect.DeepEqual: values of different types are never deeply equal.
DeepEqual(sh, x, y) ==
    IF x.kind # y.kind THEN FALSE
    ELSE IF x.kind = "canonical" THEN
        /\ x.Code = y.Code
        /\ DeepEqualExtras(sh, x.Extras, y.Extras)
        /\ x.Flags = y.Flags
        /\ x.Message = y.Message
        /\ x.Namespace = y.Namespace
        /\ DeepEqual(sh, x.Wrapped, y.Wrapped)
    ELSE IF x.kind = "*canonical" THEN DeepEqual(sh, x.elem, y.elem)
    ELSE x = y

IsZero(sh, c) == DeepEqual(sh, c, NewCanonical)

Equal(h, sh, c, e) ==
    LET ce == ErrorsAs(h, e, "canonical") IN
    IF ce.kind = "nil" THEN FALSE
    ELSE /\ c.Code = ce.Code
         /\ c.Message = ce.Message
         /\ c.Namespace = ce.Namespace
         /\ c.Flags = ce.Flags
         /\ DeepEqualExtras(sh, c.Extras, ce.Extras)

RECURSIVE Copy(_, _)
Copy(h, c) ==
    LET wrapped == ErrorsAs(h, c.Wrapped, "canonical") IN
    IF c.Wrapped.kind # "nil" /\ wrapped.kind # "nil"
    THEN Canonical(c.Code, c.Extras, c.Flags, c.Message, c.Namespace, Copy(h, wrapped))
    ELSE Canonical(c.Code, c.Extras, c.Flags, c.Message, c.Namespace, c.Wrapped)

Wrap(h, sh, c, err) ==
    IF err.kind = "nil" THEN c
    ELSE LET ce == ErrorsAs(h, err, "canonical") IN
         IF IsZero(sh, c) /\ ce.kind # "nil" THEN Copy(h, ce)
         ELSE Canonical(c.Code, c.Extras, c.Flags, c.Message, c.Namespace, err)

CanonicalUnwrap(c) == c.Wrapped

WithExtras(c, extras) == Canonical(c.Code, extras, c.Flags, c.Message, c.Namespace, c.Wrapped)

WithFlags(c, flags) ==
    Canonical(c.Code, c.Extras, FlagsSet(c.Flags, flags), c.Message, c.Namespace, c.Wrapped)

IsRetryable(c) == FlagsHas(c.Flags, FlagRetryable)
IsTimeout(c) == FlagsHas(c.Flags, FlagTimeout)
IsTransient(c) == FlagsHas(c.Flags, FlagUnknown)

\* ---------------------------------------------------------------- Extras

\* append(s, vals...) on a []string, k being the array the allocator hands out
\* if the slice has to grow: the string heap and the slice header after it.
\* With room in the array the new elements are written in place, after s.len.
AppendStrings(sh, s, vals, k) ==
    IF Len(vals) = 0 THEN [sh |-> sh, s |-> s]
    ELSE IF s.len + Len(vals) <= s.cap
    THEN [sh |-> [sh EXCEPT ![s.arr] = [i \in 1..Len(sh[s.arr]) |->
                                            IF i > s.len /\ i <= s.len + Len(vals)
                                            THEN vals[i - s.len] ELSE sh[s.arr][i]]],
          s |-> [s EXCEPT !.len = s.len + Len(vals)]]
    ELSE LET c == GrowCap(s.cap, s.len + Len(vals)) IN
         [sh |-> [sh EXCEPT ![k] = Pad(Strings(sh, s) \o vals, c, "")],
          s |-> [arr |-> k, len |-> s.len + Len(vals), cap |-> c]]

ExtrasWithDelay(e, delay) ==
    [Delay |-> delay, Links |-> e.Links, StackTrace |-> e.StackTrace, Tags |-> e.Tags]

ExtrasWithStackTrace(e, trace) ==
    [Delay |-> e.Delay, Links |-> e.Links, StackTrace |-> trace, Tags |-> e.Tags]

\* Extras.WithLinks: the string heap and the Extras returned.
ExtrasWithLinks(sh, e, links, k) ==
    LET a == AppendStrings(sh, e.Links, links, k) IN
    [sh |-> a.sh,
     e |-> [Delay |-> e.Delay, Links |-> a.s, StackTrace |-> e.StackTrace, Tags |-> e.Tags]]

\* Extras.WithTags: the string heap and the Extras returned.
ExtrasWithTags(sh, e, tags, k) ==
    LET a == AppendStrings(sh, e.Tags, tags, k) IN
    [sh |-> a.sh,
     e |-> [Delay |-> e.Delay, Links |-> e.Links, StackTrace |-> e.StackTrace, Tags |-> a.s]]

\* Canonical.WithTags: the string heap and the Canonical returned.
WithTags(sh, c, tags, k) ==
    LET x == ExtrasWithTags(sh, c.Extras, tags, k) IN
    [sh |-> x.sh,
     c |-> Canonical(c.Code, x.e, c.Flags, c.Message, c.Namespace, c.Wrapped)]

\* ---------------------------------------------------------------- Group

SliceMutReversed(h, id) == LET es == Members(h, id) IN [i \in 1..Len(es) |-> es[Len(es) + 1 - i]]

SliceMutShort(h, id) == LET es == Members(h, id) IN SubSeq(es, 1, Len(es) - 1)

\* (*Group).Slice: a new []error holding the members.
Slice(h, id) == Members(h, id)

\* g.Errors = append(g.Errors, e): in place when the array has room, else into
\* a grown copy.
AppendErrors(h, id, e) ==
    LET s == h.groups[id].Errors IN
    IF s.len < s.cap
    THEN [h EXCEPT !.earrs[s.arr][s.off + s.len + 1] = e,
                   !.groups[id].Errors.len = s.len + 1]
    ELSE LET c == GrowCap(s.cap, s.len + 1)
             k == FreeArr(h)
         IN [h EXCEPT !.earrs[k] = Pad(Append(Elems(h, s), e), c, Nil),
                      !.groups[id].Errors = [arr |-> k, off |-> 0, len |-> s.len + 1, cap |-> c]]

RECURSIVE GroupAppend(_, _, _, _)
\* (*Group).Append(errs...): the heap after the call.
GroupAppend(h, sh, id, errs) ==
    IF errs = <<>> THEN h
    ELSE LET err == Head(errs)
             eg == ErrorsAs(h, err, "group")
             found == ErrorsAs(h, err, "canonical")
             e == IF found.kind = "nil" THEN Wrap(h, sh, ErrUnknown, err) ELSE found
             h1 == IF err.kind = "nil" THEN h
                   ELSE IF eg.kind # "nil" THEN GroupAppend(h, sh, id, Slice(h, eg.id))
                   ELSE IF e.kind = "nil" THEN h
                   ELSE AppendErrors(h, id, e)
         IN GroupAppend(h1, sh, id, Tail(errs))

\* NewGroup(errs...) stored in the client's pointer id.
NewGroup(h, sh, id, errs) ==
    LET s == MakeErrors(h, Len(errs))
        h0 == [h EXCEPT !.earrs[s.arr] = Pad(<<>>, s.cap, Nil),
                        !.groups[id] = [live |-> TRUE, Errors |-> s]]
    IN GroupAppend(h0, sh, id, errs)

\* (*Group).Empty, id 0 being the nil receiver.
Empty(h, id) == IF id = 0 THEN TRUE ELSE h.groups[id].Errors.len = 0

ErrorOrNilMutAlways(h, id) == GroupPtr(id)

\* (*Group).ErrorOrNil.
ErrorOrNil(h, id) ==
    IF id = 0 THEN Nil
    ELSE IF h.groups[id].Errors.arr = 0 \/ h.groups[id].Errors.len = 0 THEN Nil
    ELSE GroupPtr(id)

GroupLen(h, id) == h.groups[id].Errors.len

\* (*Group).Swap.
Swap(h, id, i, j) ==
    LET s == h.groups[id].Errors
        a == h.earrs[s.arr]
    IN [h EXCEPT !.earrs[s.arr] = [a EXCEPT ![s.off + i + 1] = a[s.off + j + 1],
                                            ![s.off + j + 1] = a[s.off + i + 1]]]

\* The chain over the group's own array: no copy is made.
GroupUnwrapMutShared(h, id) ==
    IF id = 0 THEN [h EXCEPT !.chain = Nil]
    ELSE LET s == h.groups[id].Errors IN
         IF s.len = 0 THEN [h EXCEPT !.chain = Nil]
         ELSE IF s.len = 1 THEN [h EXCEPT !.chain = h.earrs[s.arr][s.off + 1]]
         ELSE [h EXCEPT !.chain = [kind |-> "chain", arr |-> s.arr, off |-> s.off,
                                   len |-> s.len, cap |-> s.cap]]

\* (*Group).Unwrap, id 0 being the nil receiver: the heap in which the client
\* holds the returned error (nil, the only member, or a chain over a copy of
\* the members) in place of the error it held.
GroupUnwrap(h, id) ==
    IF id = 0 THEN [h EXCEPT !.chain = Nil]
    ELSE LET s == h.groups[id].Errors IN
         IF s.len = 0 THEN [h EXCEPT !.chain = Nil]
         ELSE IF s.len = 1 THEN [h EXCEPT !.chain = h.earrs[s.arr][s.off + 1]]
         ELSE LET errs == MakeErrors(h, s.len) IN
              [h EXCEPT !.earrs[errs.arr] = Elems(h, s),
                        !.chain = [kind |-> "chain", arr |-> errs.arr, off |-> 0,
                                   len |-> s.len, cap |-> s.len]]

chainUnwrapMutEarly(e) ==
    IF e.len <= 2 THEN Nil
    ELSE [e EXCEPT !.off = e.off + 1, !.len = e.len - 1, !.cap = e.cap - 1]

\* chain.Unwrap: nil, or e[1:].
chainUnwrap(e) ==
    IF e.len <= 1 THEN Nil
    ELSE [e EXCEPT !.off = e.off + 1, !.len = e.len - 1, !.cap = e.cap - 1]

\* Member 0 of a chain, which its Error, Is and As present.
chainFirst(h, e) == h.earrs[e.arr][e.off + 1]

\* Canonical.AsGroup, the new group stored in the client's pointer id.
RECURSIVE AsGroupLoop(_, _, _, _)
AsGroupLoop(h, sh, id, err) ==
    IF err.Wrapped.kind = "nil" THEN h
    ELSE LET h1 == GroupAppend(h, sh, id, <<err.Wrapped>>)
             ce == ErrorsAs(h1, err.Wrapped, "canonical")
         IN IF ce.kind = "nil" THEN h1 ELSE AsGroupLoop(h1, sh, id, ce)

AsGroup(h, sh, id, c) == AsGroupLoop(NewGroup(h, sh, id, <<c>>), sh, id, c)

\* ---------------------------------------------------------------- inputs

EmptyStrHeap == [k \in StrArrIds |-> <<>>]

Kind(code) == Canonical(code, ZeroExtras, 0, "missing", "svc", Nil)

ErrNotFound == Kind("not-found")
DiskFull == Foreign("disk full", Nil)
\* fmt.Errorf("read: %w", ErrNotFound)
ReadFailed == Foreign("read", ErrNotFound)
ErrConflict == Canonical("conflict", ZeroExtras, FlagRetryable, "stale", "svc", DiskFull)

\* A classified error wrapped around a group, as by ErrBatch.Wrap(g).
Batch(g) == Canonical("batch", ZeroExtras, 0, "failed", "svc", GroupPtr(g))

Live(h) == {g \in GroupIds : h.groups[g].live}

\* What a client passes to Append and NewGroup: nil, classified errors, foreign
\* errors with and without a classified cause, groups, errors that wrap a
\* group, and the chain it holds. (Appending a nil *Group panics in Slice; the
\* client does not do it.)
Args(h) ==
    {Nil, ErrNotFound, ErrConflict, DiskFull, ReadFailed}
    \cup {GroupPtr(g) : g \in Live(h)}
    \cup {Batch(g) : g \in Live(h)}
    \cup (IF h.chain.kind = "chain" THEN {h.chain} ELSE {})

\* Variadic calls with none, one and two arguments.
ArgLists(h) ==
    {<<>>} \cup {<<a>> : a \in Args(h)} \cup {<<a, b>> : a \in Args(h), b \in {Nil, ErrConflict}}

NoWalk == [cur |-> Nil, snap |-> <<>>, visited |-> <<>>, active |-> FALSE]

\* ---------------------------------------------------------------- Spec: groups

\* The client between two calls.
Idle == [op |-> "idle", id |-> 0, args |-> <<>>, old |-> <<>>, ret |-> Nil]

Init ==
    /\ heap = EmptyHeap
    /\ last = Idle
    /\ walk = NoWalk
    /\ stack = <<>>
    /\ regs = <<>>
    /\ sheap = EmptyStrHeap
    /\ seen = <<>>
    /\ calls = 0

DoNewGroup(id, errs) ==
    /\ last = Idle
    /\ ~heap.groups[id].live
    /\ LET h == NewGroup(heap, sheap, id, errs) IN
       /\ GroupLen(h, id) <= MaxLen
       /\ heap' = Collect(h)
    /\ last' = [op |-> "NewGroup", id |-> id, args |-> errs, old |-> <<>>, ret |-> Nil]
    /\ UNCHANGED <<walk, stack, regs, sheap, seen, calls>>

DoAppend(id, errs) ==
    /\ last = Idle
    /\ heap.groups[id].live
    /\ LET h == GroupAppend(heap, sheap, id, errs) IN
       /\ GroupLen(h, id) <= MaxLen
       /\ heap' = Collect(h)
    /\ last' = [op |-> "Append", id |-> id, args |-> errs, old |-> Members(heap, id), ret |-> Nil]
    /\ UNCHANGED <<walk, stack, regs, sheap, seen, calls>>

DoErrorOrNil(id) ==
    /\ last = Idle
    /\ (IF id = 0 THEN TRUE ELSE heap.groups[id].live)
    /\ last' = [op |-> "ErrorOrNil", id |-> id, args |-> <<>>, old |-> <<>>, ret |-> ErrorOrNil(heap, id)]
    /\ UNCHANGED <<heap, walk, stack, regs, sheap, seen, calls>>

\* The client has looked at the result of its call and goes on.
Continue ==
    /\ last # Idle
    /\ last' = Idle
    /\ UNCHANGED <<heap, walk, stack, regs, sheap, seen, calls>>

Next ==
    \/ \E id \in GroupIds : \E errs \in ArgLists(heap) : DoNewGroup(id, errs)
    \/ \E id \in GroupIds : \E errs \in ArgLists(heap) : DoAppend(id, errs)
    \/ \E id \in GroupIds \cup {0} : DoErrorOrNil(id)
    \/ Continue

Spec == Init /\ [][Next]_vars

\* ---------------------------------------------------------------- claims on Spec

\* The members of the group the last call was made on.
Result == Members(heap, last.id)

\* C1: g.Append(g2) leaves g.Errors equal to the old g.Errors, in unchanged
\* order, followed by exactly g2's members in g2's order (g2 having been built
\* by any sequence of NewGroup and Append calls, on groups and on errors that
\* wrap groups); and no element of any group's Errors is itself a Group.
C1_AppendFlattens ==
    /\ \A g \in Live(heap) : \A i \in 1..GroupLen(heap, g) :
          Members(heap, g)[i].kind = "canonical"
    /\ (last.op = "Append" /\ Len(last.args) = 1 /\ last.args[1].kind = "group")
          => Result = last.old \o (IF last.args[1].id = last.id THEN last.old
                                    ELSE Members(heap, last.args[1].id))

C1_Witness ==
    /\ last.op = "Append" /\ Len(last.args) = 1 /\ last.args[1].kind = "group"
    /\ last.args[1].id # last.id
    /\ last.old # <<>>
    /\ GroupLen(heap, last.args[1].id) >= 2
    /\ Members(heap, last.args[1].id)[1] # Members(heap, last.args[1].id)[2]
    /\ Result = last.old \o Members(heap, last.args[1].id)

\* What ErrorOrNil is to return for the group at id.
NilOrItself(id) ==
    IF id = 0 THEN Nil
    ELSE IF Members(heap, id) = <<>> THEN Nil ELSE GroupPtr(id)

\* C5 as stated: ErrorOrNil() returns nil when the Group is nil or has no
\* members and otherwise the group itself; NewGroup().ErrorOrNil() is nil and
\* NewGroup(err).ErrorOrNil() is non-nil for any non-nil err.
C5_Original ==
    /\ last.op = "ErrorOrNil" => last.ret = NilOrItself(last.id)
    /\ (last.op = "NewGroup" /\ last.args = <<>>) => ErrorOrNil(heap, last.id) = Nil
    /\ (last.op = "NewGroup" /\ Len(last.args) = 1 /\ last.args[1].kind # "nil")
          => ErrorOrNil(heap, last.id) # Nil

\* Whether errors.As finds in err a *Group that has no members.
HoldsEmptyGroup(err) ==
    LET eg == ErrorsAs(heap, err, "group") IN
    IF eg.kind = "nil" THEN FALSE ELSE Members(heap, eg.id) = <<>>

\* C5 amended: as C5, but NewGroup(err).ErrorOrNil() is non-nil for the non-nil
\* err in which errors.As finds no *Group or a *Group with at least one member;
\* an err that is or wraps a group without members is flattened to nothing.
C5_ErrorOrNil ==
    /\ last.op = "ErrorOrNil" => last.ret = NilOrItself(last.id)
    /\ (last.op = "NewGroup" /\ last.args = <<>>) => ErrorOrNil(heap, last.id) = Nil
    /\ (last.op = "NewGroup" /\ Len(last.args) = 1 /\ last.args[1].kind # "nil")
          => (ErrorOrNil(heap, last.id) = Nil) = HoldsEmptyGroup(last.args[1])

C5_Witness ==
    /\ last.op = "NewGroup" /\ Len(last.args) = 1
    /\ last.args[1].kind = "canonical"
    /\ last.args[1].Wrapped.kind = "group"
    /\ ~HoldsEmptyGroup(last.args[1])
    /\ ErrorOrNil(heap, last.id) = GroupPtr(last.id)

\* The member the unknown-kind sentinel makes of err: the sentinel's code,
\* namespace and message, the Unknown bit alone, and err as the cause.
UnknownOf(err) ==
    [kind |-> "canonical", Code |-> "unknown", Extras |-> ZeroExtras, Flags |-> 1,
     Message |-> "wrapped error is unknown", Namespace |-> "go-stdlib/go-errors",
     Wrapped |-> err]

RECURSIVE WrappedAll(_)
\* The members a list of nil and foreign arguments is to add.
WrappedAll(errs) ==
    IF errs = <<>> THEN <<>>
    ELSE IF Head(errs).kind = "nil" THEN WrappedAll(Tail(errs))
    ELSE <<UnknownOf(Head(errs))>> \o WrappedAll(Tail(errs))

\* C6 as stated: every non-nil error passed to Append that is neither a Group
\* nor a Canonical is appended as exactly one member made by the unknown-kind
\* sentinel's Wrap; nil arguments add no member.
C6_Original ==
    (last.op = "Append" /\ \A i \in 1..Len(last.args) : last.args[i].kind \in {"nil", "foreign", "chain"})
        => Result = last.old \o WrappedAll(last.args)

\* Whether errors.As finds neither a *Group nor an Error in err: err is none
\* and none is reached from it by Unwrap or offered by an As method.
Unclassified(err) ==
    /\ ErrorsAs(heap, err, "group").kind = "nil"
    /\ ErrorsAs(heap, err, "canonical").kind = "nil"

\* C6 amended: every non-nil error passed to Append in which errors.As finds
\* neither a *Group nor a Canonical (the error is none, and none is among the
\* causes its Unwrap chain leads to) is appended as exactly one member made by
\* the unknown-kind sentinel's Wrap, with the Unknown flag and no other bit;
\* nil arguments add no member.
C6_UnknownWrapped ==
    (last.op = "Append" /\ \A i \in 1..Len(last.args) :
            last.args[i].kind = "nil" \/ Unclassified(last.args[i]))
        => Result = last.old \o WrappedAll(last.args)

C6_Witness ==
    /\ last.op = "Append"
    /\ last.args = <<DiskFull, Nil>>
    /\ last.old # <<>>
    /\ Result = last.old \o <<UnknownOf(DiskFull)>>

\* ---------------------------------------------------------------- SpecUnwrap: the cursor

\* One group, grown and sorted by its owner while a client walks it with
\* Unwrap. walk.snap holds the members at the time of the (*Group).Unwrap call,
\* walk.visited the member 0 of every chain handed to the client since.

Called(op) == [op |-> op, id |-> 1, args |-> <<>>, old |-> <<>>, ret |-> Nil]

InitUnwrap ==
    /\ heap = Collect(NewGroup(EmptyHeap, EmptyStrHeap, 1, <<>>))
    /\ last = Idle
    /\ walk = NoWalk
    /\ stack = <<>>
    /\ regs = <<>>
    /\ sheap = EmptyStrHeap
    /\ seen = <<>>
    /\ calls = 0

WalkAppend(err) ==
    /\ LET h == GroupAppend(heap, sheap, 1, <<err>>) IN
       /\ GroupLen(h, 1) <= MaxLen
       /\ heap' = Collect(h)
    /\ last' = Called("Append")
    /\ UNCHANGED <<walk, stack, regs, sheap, seen, calls>>

WalkSwap(i, j) ==
    /\ i < j /\ j < GroupLen(heap, 1)
    /\ heap' = Swap(heap, 1, i, j)
    /\ last' = Called("Swap")
    /\ UNCHANGED <<walk, stack, regs, sheap, seen, calls>>

\* The members 0 presented, with the one of the error now held.
Presented(h, before) ==
    IF h.chain.kind = "chain" THEN Append(before, chainFirst(h, h.chain)) ELSE before

WalkGroupUnwrap(id) ==
    /\ LET h == Collect(GroupUnwrap(heap, id)) IN
       /\ heap' = h
       /\ walk' = [cur |-> h.chain,
                   snap |-> IF id = 0 THEN <<>> ELSE Members(heap, id),
                   visited |-> Presented(h, <<>>),
                   active |-> TRUE]
    /\ last' = [Called("Unwrap") EXCEPT !.id = id]
    /\ UNCHANGED <<stack, regs, sheap, seen, calls>>

WalkChainUnwrap ==
    /\ heap.chain.kind = "chain"
    /\ LET h == Collect([heap EXCEPT !.chain = chainUnwrap(heap.chain)]) IN
       /\ heap' = h
       /\ walk' = [walk EXCEPT !.cur = h.chain, !.visited = Presented(h, walk.visited)]
    /\ last' = Called("chainUnwrap")
    /\ UNCHANGED <<stack, regs, sheap, seen, calls>>

NextUnwrap ==
    \/ \E err \in Args(heap) : WalkAppend(err)
    \/ \E i, j \in 0..(MaxLen - 1) : WalkSwap(i, j)
    \/ \E id \in {0, 1} : WalkGroupUnwrap(id)
    \/ WalkChainUnwrap

SpecUnwrap == InitUnwrap /\ [][NextUnwrap]_vars

\* C2: Unwrap on a nil or empty group returns nil; on a group with exactly one
\* member it returns that member; on a group with N >= 2 members it returns a
\* chain, and repeated Unwrap calls present the N members one at a time as
\* member 0, each once and in insertion order; Unwrap returns nil exactly on
\* the step that presents the last member.
C2_UnwrapVisitsAll ==
    walk.active =>
        /\ Len(walk.snap) = 0 => walk.cur = Nil
        /\ Len(walk.snap) = 1 => walk.cur = walk.snap[1]
        /\ Len(walk.snap) >= 2 =>
              /\ walk.cur.kind \in {"chain", "nil"}
              /\ walk.visited = SubSeq(walk.snap, 1, Len(walk.visited))
              /\ walk.cur.kind = "nil" => walk.visited = walk.snap
              /\ walk.cur.kind = "chain" =>
                    (chainUnwrap(walk.cur) = Nil) = (Len(walk.visited) = Len(walk.snap))

C2_Witness ==
    /\ walk.active
    /\ last.op = "chainUnwrap"
    /\ Len(walk.snap) = 3
    /\ walk.snap[1] # walk.snap[2] /\ walk.snap[2] # walk.snap[3]
    /\ walk.cur = Nil
    /\ walk.visited = walk.snap

\* C9: a chain returned by Unwrap on a group of two or more members is a
\* snapshot: whatever Append and Swap calls are made on the group afterwards,
\* the chain keeps its length and its members in their order (the members
\* the group had at the Unwrap call that the cursor has not passed).
C9_ChainIsSnapshot ==
    heap.chain.kind = "chain" =>
        /\ heap.chain.off + heap.chain.len = Len(walk.snap)
        /\ Elems(heap, heap.chain) = SubSeqFrom(walk.snap, heap.chain.off, heap.chain.len)

C9_Witness ==
    /\ last.op = "Swap"
    /\ heap.chain.kind = "chain"
    /\ heap.chain.off = 0
    /\ Members(heap, 1) # walk.snap
    /\ Len(Members(heap, 1)) > Len(walk.snap)
    /\ Elems(heap, heap.chain) = walk.snap

\* ---------------------------------------------------------------- SpecCanonical: the value

\* The methods of Canonical applied once to a receiver regs[1] and an argument
\* regs[2], with a group behind the client's first pointer for the errors that
\* wrap one. A boolean result is returned as True or False.

True == [kind |-> "true"]
False == [kind |-> "false"]
Bool(b) == IF b THEN True ELSE False

Receivers ==
    {ZeroCanonical, ErrNotFound, ErrConflict, Batch(1),
     Canonical("outer", ZeroExtras, FlagTimeout, "late", "svc", ErrConflict),
     Canonical("outer", ZeroExtras, 0, "late", "svc", ReadFailed),
     Canonical("outer", ZeroExtras, 0, "late", "svc", Foreign("open", DiskFull))}

Causes == {Nil, ZeroCanonical, ErrNotFound, ErrConflict, DiskFull, ReadFailed, GroupPtr(1)}

InitCanonical ==
    /\ \E errs \in ArgLists(EmptyHeap) :
          heap = Collect(NewGroup(EmptyHeap, EmptyStrHeap, 1, errs))
    /\ \E c \in Receivers : \E err \in Causes : regs = <<c, err>>
    /\ last = Idle
    /\ walk = NoWalk
    /\ stack = <<>>
    /\ sheap = EmptyStrHeap
    /\ seen = <<>>
    /\ calls = 0

Returned(op, ret) == [op |-> op, id |-> 0, args |-> regs, old |-> <<>>, ret |-> ret]

CallWrap ==
    /\ last = Idle
    /\ last' = Returned("Wrap", Wrap(heap, sheap, regs[1], regs[2]))
    /\ UNCHANGED <<heap, walk, stack, regs, sheap, seen, calls>>

CallIsZero ==
    /\ last = Idle
    /\ last' = Returned("IsZero", Bool(IsZero(sheap, regs[1])))
    /\ UNCHANGED <<heap, walk, stack, regs, sheap, seen, calls>>

CallCopy ==
    /\ last = Idle
    /\ last' = Returned("Copy", Copy(heap, regs[1]))
    /\ UNCHANGED <<heap, walk, stack, regs, sheap, seen, calls>>

CallEqual ==
    /\ last = Idle
    /\ regs[2].kind = "canonical"
    /\ last' = Returned("Equal", Bool(Equal(heap, sheap, regs[1], regs[2])))
    /\ UNCHANGED <<heap, walk, stack, regs, sheap, seen, calls>>

CallAsGroup ==
    /\ last = Idle
    /\ heap' = Collect(AsGroup(heap, sheap, 2, regs[1]))
    /\ last' = [Returned("AsGroup", GroupPtr(2)) EXCEPT !.id = 2]
    /\ UNCHANGED <<walk, stack, regs, sheap, seen, calls>>

NextCanonical == CallWrap \/ CallIsZero \/ CallCopy \/ CallEqual \/ CallAsGroup

SpecCanonical == InitCanonical /\ [][NextCanonical]_vars

\* C3 as stated: for a zero-value receiver and any err that downcasts to a
\* Canonical c2, Wrap(err) returns a full Copy() of c2: the result is Equal to
\* c2 and carries c2's Code, Namespace, Message, Flags and Extras.
C3_Original ==
    LET c2 == ErrorsAs(heap, last.args[2], "canonical") IN
    (last.op = "Wrap" /\ last.args[1] = ZeroCanonical /\ c2.kind # "nil")
        => /\ last.ret = Copy(heap, c2)
           /\ Equal(heap, sheap, last.ret, c2)
           /\ last.ret.Code = c2.Code /\ last.ret.Namespace = c2.Namespace
           /\ last.ret.Message = c2.Message /\ last.ret.Flags = c2.Flags
           /\ last.ret.Extras = c2.Extras

\* Every field at its zero value.
AllFieldsZero(c) ==
    /\ c.Code = "" /\ c.Namespace = "" /\ c.Message = "" /\ c.Flags = 0
    /\ c.Extras.Delay = 0 /\ c.Extras.StackTrace = ""
    /\ c.Extras.Links.arr = 0 /\ c.Extras.Tags.arr = 0
    /\ c.Wrapped.kind = "nil"

\* C8 as stated: IsZero() returns true if and only if every field of the
\* receiver equals its zero value; so it is true of a zero Canonical.
C8_Original ==
    last.op = "IsZero" => (last.ret = True) = AllFieldsZero(last.args[1])

RECURSIVE Links(_)
\* The links of a wrap chain as the claim counts them: the Canonical itself,
\* each Canonical wrapped below it (also one that a foreign error carries as
\* its cause), and a cause that leads to no further Canonical, counted once.
Links(e) ==
    IF e.kind = "nil" THEN <<>>
    ELSE IF e.kind = "canonical" THEN <<e>> \o Links(e.Wrapped)
    ELSE IF e.kind = "foreign" /\ ErrorsAs(heap, e, "canonical").kind # "nil"
         THEN Links(ErrorsAs(heap, e, "canonical"))
    ELSE <<e>>

\* The member that stands for a link: a Canonical itself, a foreign cause as
\* the unknown kind wrapped around it.
MemberOf(link) == IF link.kind = "canonical" THEN link ELSE UnknownOf(link)

\* C7 as stated: for every Canonical c with a non-nil Wrapped chain,
\* c.AsGroup() has as many members as the chain has links, and its i-th
\* member corresponds to the i-th link in wrap order, starting with c.
C7_Original ==
    (last.op = "AsGroup" /\ last.args[1].Wrapped.kind # "nil")
        => /\ Len(Result) = Len(Links(last.args[1]))
           /\ \A i \in 1..Len(Result) : Result[i] = MemberOf(Links(last.args[1])[i])

\* ---------------------------------------------------------------- SpecExtras: the builders

\* Two variables of the client, each holding a Canonical; every call builds a
\* value from one and stores it in one. seen[r] is what the value in r showed,
\* field by field and element by element, when it was returned.

StringsIn(c) == {c.Extras.Tags.arr, c.Extras.Links.arr}

FreeStrings(rs) ==
    CHOOSE k \in StrArrIds :
        /\ \A r \in RegIds : k \notin StringsIn(rs[r])
        /\ \A j \in StrArrIds : j < k => \E r \in RegIds : j \in StringsIn(rs[r])

\* Arrays no value points into are collected.
CollectStrings(sh, rs) ==
    [k \in StrArrIds |-> IF \E r \in RegIds : k \in StringsIn(rs[r]) THEN sh[k] ELSE <<>>]

\* What a value shows: its fields, with the elements of Tags and Links.
Shown(sh, c) ==
    [c EXCEPT !.Extras = [Delay |-> c.Extras.Delay,
                          Links |-> Strings(sh, c.Extras.Links),
                          StackTrace |-> c.Extras.StackTrace,
                          Tags |-> Strings(sh, c.Extras.Tags)]]

InitExtras ==
    /\ regs = [r \in RegIds |-> ErrNotFound]
    /\ sheap = EmptyStrHeap
    /\ seen = [r \in RegIds |-> Shown(EmptyStrHeap, ErrNotFound)]
    /\ heap = EmptyHeap
    /\ last = Idle
    /\ walk = NoWalk
    /\ stack = <<>>
    /\ calls = 0

\* dst = c, c being the value just returned, with the string heap sh.
Store(dst, sh, c) ==
    /\ calls < MaxCalls
    /\ calls' = calls + 1
    /\ regs' = [regs EXCEPT ![dst] = c]
    /\ sheap' = CollectStrings(sh, regs')
    /\ seen' = [seen EXCEPT ![dst] = Shown(sh, c)]
    /\ UNCHANGED <<heap, last, walk, stack>>

CallWithTags(src, dst, tags) ==
    /\ regs[src].Extras.Tags.len + Len(tags) <= MaxTags
    /\ LET x == WithTags(sheap, regs[src], tags, FreeStrings(regs)) IN Store(dst, x.sh, x.c)

CallWithLinks(src, dst, links) ==
    /\ regs[src].Extras.Links.len + Len(links) <= MaxLinks
    /\ LET x == ExtrasWithLinks(sheap, regs[src].Extras, links, FreeStrings(regs)) IN
       Store(dst, x.sh, WithExtras(regs[src], x.e))

CallWithDelay(src, dst, delay) ==
    Store(dst, sheap, WithExtras(regs[src], ExtrasWithDelay(regs[src].Extras, delay)))

CallWithStackTrace(src, dst, trace) ==
    Store(dst, sheap, WithExtras(regs[src], ExtrasWithStackTrace(regs[src].Extras, trace)))

CallWithFlags(src, dst, flags) ==
    Store(dst, sheap, WithFlags(regs[src], flags))

NextExtras ==
    \/ \E src, dst \in RegIds : \E tags \in {<<"a">>, <<"b">>} : CallWithTags(src, dst, tags)
    \/ \E src, dst \in RegIds : CallWithLinks(src, dst, <<"https://docs">>)
    \/ \E src, dst \in RegIds : CallWithDelay(src, dst, 5)
    \/ \E src, dst \in RegIds : CallWithStackTrace(src, dst, "main.go:1")
    \/ \E src, dst \in RegIds : CallWithFlags(src, dst, FlagRetryable)

SpecExtras == InitExtras /\ [][NextExtras]_vars

\* C4 as stated: a Canonical is immutable once returned: whatever With* calls
\* are made later on it or on values derived from the same receiver, every
\* field of it, with the contents of its Tags and Links, is unchanged; two
\* values derived from one receiver never see each other's appended elements.
C4_Original == \A r \in RegIds : Shown(sheap, regs[r]) = seen[r]

\* ---------------------------------------------------------------- SpecSteps: Append, step by step

\* One Append call run an argument at a time. stack holds the activations of
\* Append, the innermost last: the receiver, the argument list and the index
\* of the next argument (range evaluates the list once, on entry). The client
\* has two groups, the second possibly built from the first, and makes one
\* call on either.

RECURSIVE SeqsUpTo(_, _)
SeqsUpTo(S, n) ==
    IF n = 0 THEN {<<>>}
    ELSE SeqsUpTo(S, n - 1) \cup {Append(q, x) : q \in {r \in SeqsUpTo(S, n - 1) : Len(r) = n - 1}, x \in S}

Frame(id, errs) == [id |-> id, errs |-> errs, i |-> 1]

Top == stack[Len(stack)]

\* The stack with the innermost activation moved on to its next argument.
Advanced == [stack EXCEPT ![Len(stack)].i = Top.i + 1]

InitSteps ==
    /\ \E first \in SeqsUpTo({ErrNotFound, DiskFull}, MaxLen - 1) :
       \E second \in {<<>>, <<ErrConflict>>, <<GroupPtr(1)>>, <<ErrConflict, Batch(1)>>} :
          heap = Collect(NewGroup(Collect(NewGroup(EmptyHeap, EmptyStrHeap, 1, first)),
                                  EmptyStrHeap, 2, second))
    /\ last = Idle
    /\ stack = <<>>
    /\ walk = NoWalk
    /\ regs = <<>>
    /\ sheap = EmptyStrHeap
    /\ seen = <<>>
    /\ calls = 0

\* The client calls g.Append(errs...).
AppendCall(id, errs) ==
    /\ last = Idle
    /\ stack' = <<Frame(id, errs)>>
    /\ last' = [op |-> "Append", id |-> id, args |-> errs, old |-> Members(heap, id), ret |-> Nil]
    /\ UNCHANGED <<heap, walk, regs, sheap, seen, calls>>

\* for _, err := range errs is over: the activation returns.
AppendReturn ==
    /\ stack # <<>>
    /\ Top.i > Len(Top.errs)
    /\ stack' = SubSeq(stack, 1, Len(stack) - 1)
    /\ last' = IF Len(stack) = 1 THEN [last EXCEPT !.op = "Appended"] ELSE last
    /\ UNCHANGED <<heap, walk, regs, sheap, seen, calls>>

\* err == nil: continue.
AppendSkipNil ==
    /\ stack # <<>>
    /\ Top.i <= Len(Top.errs)
    /\ Top.errs[Top.i].kind = "nil"
    /\ stack' = Advanced
    /\ UNCHANGED <<heap, last, walk, regs, sheap, seen, calls>>

\* errors.As(err, &eg): g.Append(eg.Slice()...) is entered; on its return the
\* loop continues.
AppendFlatten ==
    /\ stack # <<>>
    /\ Top.i <= Len(Top.errs)
    /\ Top.errs[Top.i].kind # "nil"
    /\ LET eg == ErrorsAs(heap, Top.errs[Top.i], "group") IN
       /\ eg.kind # "nil"
       /\ stack' = Append(Advanced, Frame(Top.id, Slice(heap, eg.id)))
    /\ UNCHANGED <<heap, last, walk, regs, sheap, seen, calls>>

\* The error itself, or the unknown kind wrapped around it, is appended.
AppendMember ==
    /\ stack # <<>>
    /\ Top.i <= Len(Top.errs)
    /\ Top.errs[Top.i].kind # "nil"
    /\ ErrorsAs(heap, Top.errs[Top.i], "group").kind = "nil"
    /\ LET err == Top.errs[Top.i]
           found == ErrorsAs(heap, err, "canonical")
           e == IF found.kind = "nil" THEN Wrap(heap, sheap, ErrUnknown, err) ELSE found
       IN heap' = Collect(IF e.kind = "nil" THEN heap ELSE AppendErrors(heap, Top.id, e))
    /\ stack' = Advanced
    /\ UNCHANGED <<last, walk, regs, sheap, seen, calls>>

AppendStep == AppendReturn \/ AppendSkipNil \/ AppendFlatten \/ AppendMember

NextSteps ==
    \/ \E id \in GroupIds : \E errs \in ArgLists(heap) : AppendCall(id, errs)
    \/ AppendStep

\* A call that was entered keeps running: nothing in Append blocks.
SpecSteps == InitSteps /\ [][NextSteps]_vars /\ WF_vars(AppendStep)

\* C10: Append terminates for every finite argument list, also when a group is
\* appended to itself or to a group whose members were flattened from it; and
\* after g.Append(g) on a group with N members, g has exactly 2N members, the
\* original N followed by a copy of them in the same order.
C10_AppendTerminates ==
    /\ (stack # <<>>) ~> (stack = <<>> /\ last.op = "Appended")
    /\ [](last.op = "Appended" /\ last.args = <<GroupPtr(last.id)>>
            => Result = last.old \o last.old)

C10_Witness ==
    /\ last.op = "Appended"
    /\ stack = <<>>
    /\ last.args = <<GroupPtr(last.id)>>
    /\ Len(last.old) >= 2
    /\ last.old[1] # last.old[2]
    /\ Result = last.old \o last.old

====
